---- MODULE Spec2Model ----
(***************************************************************************)
(* nohuman: database release manifest resolution and installation manager *)
(* (src/src/download.rs, validate_db_directory of src/src/lib.rs).        *)
(*                                                                         *)
(* Representation.                                                         *)
(*  - A directory is a record: the marker files directly in it, whether   *)
(*    it has a db subdirectory and the marker files in that, and its      *)
(*    metadata file.  The database root is such a record plus its         *)
(*    immediate version subdirectories.                                   *)
(*  - A path is the sequence of components below the database root:       *)
(*    << >> is the root, <<v>> is root.join(v).  Version strings are      *)
(*    single normal path components, as in the published manifest.        *)
(*  - The text of an added date is its three numeric fields [y, m, d];    *)
(*    a text that is no date has fields out of range.                     *)
(*  - A metadata file is present or not, and its text is a sequence of    *)
(*    key/value lines.                                                     *)
(*  - Option<T> is a sequence of length 0 (None) or 1 (Some).             *)
(***************************************************************************)
EXTENDS Integers, Sequences, FiniteSets, TLC

\* ------------------------------------------------------------------ bounds
\* Longest manifest fetched by download_config in the model.
MaxReleases == 2

\* ------------------------------------------------------------- constants
required_files == {"hash.k2d", "opts.k2d", "taxo.k2d"}

LEGACY_ADDED_DATE == [y |-> 1970, m |-> 1, d |-> 1]

LEGACY_VERSION == "legacy"

StatusOK == 200

\* --------------------------------------------------------- input domains
\* Versions a manifest may list (and so directory names under the root).
Versions == {"HPRC.r1", "HPRC.r2"}

\* Version strings a caller may ask for with DbSelection::Version.
Requested == Versions \cup {"hprc.r1"}

\* Texts of the added field: two dates, the legacy date, a day that does
\* not exist (30 February) and a text that is no date at all.
D2023 == [y |-> 2023, m |-> 1, d |-> 1]

D2024 == [y |-> 2024, m |-> 1, d |-> 1]

DFeb30 == [y |-> 2024, m |-> 2, d |-> 30]

DNoDate == [y |-> 0, m |-> 0, d |-> 0]

ValidTexts == {D2023, D2024}

DateTexts == ValidTexts \cup {DFeb30}

\* MD5 digests: the md5 field of a release and the digest of a body served.
Md5Of(version) == IF version = "HPRC.r1" THEN "md5-r1" ELSE "md5-r2"

Hashes == {Md5Of(v) : v \in Versions}

\* The releases a manifest may list.  The url field is the address the
\* environment answers; each version publishes its own tarball digest.
Releases == {[version |-> v, md5 |-> Md5Of(v), added |-> a] : v \in Versions, a \in DateTexts}

\* ------------------------------------------------------------ dates
IsLeap(y) == (y % 4 = 0 /\ y % 100 # 0) \/ y % 400 = 0

DaysInMonth(y, m) ==
    IF m \in {1, 3, 5, 7, 8, 10, 12} THEN 31
    ELSE IF m \in {4, 6, 9, 11} THEN 30
    ELSE IF IsLeap(y) THEN 29 ELSE 28

\* Date::from_str(raw): Ok(date) for a real calendar date, else InvalidDate(raw).
parse_added_date(raw) ==
    IF /\ raw.y \in (0 - 9999)..9999
       /\ raw.m \in 1..12
       /\ raw.d \in 1..DaysInMonth(raw.y, raw.m)
    THEN [ok |-> TRUE, date |-> <<raw.y, raw.m, raw.d>>]
    ELSE [ok |-> FALSE, date |-> <<0, 0, 0>>]

\* parse_added_date(raw).unwrap_or_else(|_| parse_added_date(LEGACY_ADDED_DATE))
date_sort_key(raw) ==
    IF parse_added_date(raw).ok
    THEN parse_added_date(raw).date
    ELSE parse_added_date(LEGACY_ADDED_DATE).date

\* Ord for civil::Date: -1, 0, 1 for Less, Equal, Greater.
DateCmp(a, b) ==
    IF a[1] # b[1] THEN (IF a[1] < b[1] THEN 0 - 1 ELSE 1)
    ELSE IF a[2] # b[2] THEN (IF a[2] < b[2] THEN 0 - 1 ELSE 1)
    ELSE IF a[3] # b[3] THEN (IF a[3] < b[3] THEN 0 - 1 ELSE 1)
    ELSE 0

\* Iterator::max_by with the comparator of latest_release and
\* latest_installed_database: a fold that keeps the accumulator only when it
\* compares Greater, so the last of several equal maxima is returned.
RECURSIVE MaxByFold(_, _, _)
MaxByFold(items, acc, i) ==
    IF i > Len(items) THEN acc
    ELSE MaxByFold(items,
                   IF DateCmp(date_sort_key(acc.added), date_sort_key(items[i].added)) = 1
                   THEN acc ELSE items[i],
                   i + 1)

max_by_added(items) ==
    IF Len(items) = 0 THEN << >> ELSE << MaxByFold(items, items[1], 2) >>

\* ------------------------------------------------------------ filesystem
NoMeta == [present |-> FALSE, text |-> << >>]

NoDir == [exists |-> FALSE, files |-> {}, hasdb |-> FALSE, db |-> {}, meta |-> NoMeta]

EmptyDir == [exists |-> TRUE, files |-> {}, hasdb |-> FALSE, db |-> {}, meta |-> NoMeta]

\* The directory part of a root record.
AsDir(root) ==
    [exists |-> root.exists, files |-> root.files, hasdb |-> root.hasdb,
     db |-> root.db, meta |-> root.meta]

\* A root: a directory, its subdirectories by name, and whether
\* fs::read_dir of it succeeds (download.rs:164).
MissingRoot ==
    [exists |-> FALSE, files |-> {}, hasdb |-> FALSE, db |-> {}, meta |-> NoMeta,
     sub |-> [v \in Versions |-> NoDir], readable |-> TRUE]

EmptyRoot == [MissingRoot EXCEPT !.exists = TRUE]

\* validate_db_directory taking each required file from path or from path/db.
validate_db_directory_either(dir) ==
    IF dir.exists /\ \A file \in required_files : file \in dir.files \cup dir.db
    THEN [ok |-> TRUE, at |-> "."]
    ELSE [ok |-> FALSE, at |-> ""]

\* validate_db_directory looking into path/db before path itself.
validate_db_directory_db_first(dir) ==
    IF dir.hasdb /\ \A file \in required_files : file \in dir.db
    THEN [ok |-> TRUE, at |-> "db"]
    ELSE IF dir.exists /\ \A file \in required_files : file \in dir.files
    THEN [ok |-> TRUE, at |-> "."]
    ELSE [ok |-> FALSE, at |-> ""]

\* validate_db_directory(path): Ok(path) when every required file is directly
\* in path, else Ok(path/db) when every one is in path/db, else Err.
validate_db_directory(dir) ==
    IF dir.exists /\ \A file \in required_files : file \in dir.files
    THEN [ok |-> TRUE, at |-> "."]
    ELSE IF dir.hasdb /\ \A file \in required_files : file \in dir.db
    THEN [ok |-> TRUE, at |-> "db"]
    ELSE [ok |-> FALSE, at |-> ""]

\* The version field written as "HPRC.r1", whatever the release says.
MetaTomlFirstVersion(version, added) ==
    << [key |-> "version", str |-> "HPRC.r1", date |-> DNoDate],
       [key |-> "added", str |-> "", date |-> added] >>

\* The added field written as the legacy date, whatever the release says.
MetaTomlLegacyDate(version, added) ==
    << [key |-> "version", str |-> version, date |-> DNoDate],
       [key |-> "added", str |-> "", date |-> LEGACY_ADDED_DATE] >>

\* The added field written as the date it sorts by instead of as its text.
MetaTomlSortKey(version, added) ==
    << [key |-> "version", str |-> version, date |-> DNoDate],
       [key |-> "added", str |-> "",
        date |-> [y |-> date_sort_key(added)[1], m |-> date_sort_key(added)[2],
                  d |-> date_sort_key(added)[3]]] >>

\* toml::to_string(&InstalledMetadata{version, added})
MetaToml(version, added) ==
    << [key |-> "version", str |-> version, date |-> DNoDate],
       [key |-> "added", str |-> "", date |-> added] >>

\* write_metadata writing the version field alone.
write_metadata_version_only(dir, version, added) ==
    [dir EXCEPT !.meta = [present |-> TRUE,
                          text |-> << [key |-> "version", str |-> version,
                                       date |-> DNoDate] >>]]

\* write_metadata with the write left out.
write_metadata_skipped(dir, version, added) == dir

\* write_metadata(dir, metadata): fs::write(dir.join(METADATA_FILE), content)
write_metadata(dir, version, added) ==
    [dir EXCEPT !.meta = [present |-> TRUE, text |-> MetaToml(version, added)]]

HasKey(text, k) == \E i \in 1..Len(text) : text[i].key = k

Line(text, k) == text[CHOOSE i \in 1..Len(text) : text[i].key = k]

\* read_metadata(dir): Err when the file cannot be read or does not parse as
\* InstalledMetadata (both fields are required).
read_metadata(dir) ==
    IF dir.meta.present /\ HasKey(dir.meta.text, "version") /\ HasKey(dir.meta.text, "added")
    THEN [ok |-> TRUE,
          version |-> Line(dir.meta.text, "version").str,
          added |-> Line(dir.meta.text, "added").date]
    ELSE [ok |-> FALSE, version |-> "", added |-> DNoDate]

InstalledDatabase(version, path, added) ==
    [version |-> version, path |-> path, added |-> added]

\* The orders in which fs::read_dir may yield the subdirectories of the root.
ReadOrders ==
    {o \in [1..Cardinality(Versions) -> Versions] : \A v \in Versions : \E i \in DOMAIN o : o[i] = v}

\* The loop of installed_databases with the validation of the directory
\* left out: every subdirectory with a metadata file that parses is listed.
RECURSIVE ScanEntriesUnvalidated(_, _, _)
ScanEntriesUnvalidated(root, order, i) ==
    IF i > Len(order) THEN << >>
    ELSE LET name == order[i]
             path == root.sub[name]
             meta == read_metadata(path)
             rest == ScanEntriesUnvalidated(root, order, i + 1)
         IN  IF path.exists /\ meta.ok
             THEN << InstalledDatabase(meta.version, << name >>, meta.added) >> \o rest
             ELSE rest

\* The loop of installed_databases over read_dir(database_root), from entry i.
RECURSIVE ScanEntries(_, _, _)
ScanEntries(root, order, i) ==
    IF i > Len(order) THEN << >>
    ELSE LET name == order[i]
             path == root.sub[name]
             meta == read_metadata(path)
             rest == ScanEntries(root, order, i + 1)
         IN  IF ~path.exists THEN rest
             ELSE IF meta.ok /\ validate_db_directory(path).ok
             THEN << InstalledDatabase(meta.version, << name >>, meta.added) >> \o rest
             ELSE rest

\* installed_databases with the legacy entry only for a root that holds the
\* required files directly.
installed_databases_flat_legacy(root, order) ==
    (IF root.exists /\ root.readable THEN ScanEntries(root, order, 1) ELSE << >>)
    \o (IF /\ validate_db_directory(AsDir(root)).ok
           /\ validate_db_directory(AsDir(root)).at = "."
           /\ ~read_metadata(AsDir(root)).ok
        THEN << InstalledDatabase(LEGACY_VERSION, << >>, LEGACY_ADDED_DATE) >>
        ELSE << >>)

\* installed_databases with the legacy test on read_metadata turned round.
installed_databases_flipped(root, order) ==
    (IF root.exists /\ root.readable THEN ScanEntries(root, order, 1) ELSE << >>)
    \o (IF validate_db_directory(AsDir(root)).ok /\ read_metadata(AsDir(root)).ok
        THEN << InstalledDatabase(LEGACY_VERSION, << >>, LEGACY_ADDED_DATE) >>
        ELSE << >>)

\* installed_databases(database_root), read_dir yielding the entries in `order`.
installed_databases(root, order) ==
    (IF root.exists /\ root.readable THEN ScanEntries(root, order, 1) ELSE << >>)
    \o (IF validate_db_directory(AsDir(root)).ok /\ ~read_metadata(AsDir(root)).ok
        THEN << InstalledDatabase(LEGACY_VERSION, << >>, LEGACY_ADDED_DATE) >>
        ELSE << >>)

\* latest_installed_database without the comparison of dates.
latest_installed_database_first(root, order) ==
    IF installed_databases(root, order) = << >> THEN << >>
    ELSE << installed_databases(root, order)[1] >>

latest_installed_database(root, order) ==
    max_by_added(installed_databases(root, order))

\* Whether a scan of the root lists the version.
Lists(root, version, order) ==
    LET listed == installed_databases(root, order)
    IN  \E i \in 1..Len(listed) : listed[i].version = version

\* Iterator::find: the first element with the version, as an Option.
RECURSIVE FindVersion(_, _, _)
FindVersion(items, version, i) ==
    IF i > Len(items) THEN << >>
    ELSE IF items[i].version = version THEN << items[i] >>
    ELSE FindVersion(items, version, i + 1)

\* find_installed_database finding nothing: every install downloads.
find_installed_database_none(root, version, order) == << >>

find_installed_database(root, version, order) ==
    FindVersion(installed_databases(root, order), version, 1)

\* ------------------------------------------------------------- tarballs
\* A tar entry: a required file at the top of the archive or under db/.
Entry(indb, name) == [indb |-> indb, name |-> name]

FlatArchive ==
    << Entry(FALSE, "hash.k2d"), Entry(FALSE, "opts.k2d"), Entry(FALSE, "taxo.k2d") >>

NestedArchive ==
    << Entry(TRUE, "hash.k2d"), Entry(TRUE, "opts.k2d"), Entry(TRUE, "taxo.k2d") >>

SplitArchive ==
    << Entry(FALSE, "hash.k2d"), Entry(TRUE, "opts.k2d"), Entry(TRUE, "taxo.k2d") >>

Archives == {FlatArchive, NestedArchive, SplitArchive}

\* What the network and the temporary directory do during one install:
\*   transport  reqwest::get or a chunk of the body fails
\*   status     the HTTP status of the response
\*   hash       the MD5 digest of the body written to the temporary file
\*   entries    the tar entries of the body
\*   written    how many entries Archive::unpack writes before it stops
\*   unpackerr  Archive::unpack returns an error (written = 0: no gzip stream)
\*   tmpok      fs::remove_file of the temporary file succeeds
GoodEnv(hash, entries) ==
    [transport |-> FALSE, status |-> StatusOK, hash |-> hash, entries |-> entries,
     written |-> Len(entries), unpackerr |-> FALSE, tmpok |-> TRUE]

OtherHash(md5) == CHOOSE h \in Hashes : h # md5

\* The environments of an install of a release with digest md5, one for each
\* outcome the code can tell apart: a transport error, a 404 (no body is
\* written: the temporary file has another digest and holds no gzip stream),
\* a body with another digest, and for a body with the right digest an archive that
\* unpacks whole (the temporary file then removable or not) or an unpack that
\* fails at once (no gzip stream) or after the first entry.
EnvsFor(md5) ==
    {[GoodEnv(md5, FlatArchive) EXCEPT !.transport = TRUE],
     [GoodEnv(OtherHash(md5), FlatArchive) EXCEPT
        !.status = 404, !.unpackerr = TRUE, !.written = 0],
     GoodEnv(OtherHash(md5), FlatArchive),
     [GoodEnv(md5, FlatArchive) EXCEPT !.unpackerr = TRUE, !.written = 0]}
    \cup {GoodEnv(md5, a) : a \in Archives}
    \cup {[GoodEnv(md5, a) EXCEPT !.tmpok = FALSE] : a \in Archives}
    \cup {[GoodEnv(md5, a) EXCEPT !.unpackerr = TRUE, !.written = 1] :
            a \in {FlatArchive, NestedArchive}}

\* Archive::unpack(output_path) after n entries.
Unpack(dir, entries, n) ==
    [dir EXCEPT
       !.exists = TRUE,
       !.files = @ \cup {entries[i].name : i \in {j \in 1..n : ~entries[j].indb}},
       !.hasdb = @ \/ \E i \in 1..n : entries[i].indb,
       !.db = @ \cup {entries[i].name : i \in {j \in 1..n : entries[j].indb}}]

\* The digest comparison left out.
Md5Unchecked(md5_hash, md5) == TRUE

\* md5_hash != md5 (download.rs:338), negated.
Md5Matches(md5_hash, md5) == md5_hash = md5

\* download_and_extract_tarball without the test of the status.
download_and_extract_tarball_any_status(dir, md5, env) ==
    IF env.transport THEN [dir |-> dir, err |-> "ReqwestError"]
    ELSE IF ~Md5Matches(env.hash, md5) THEN [dir |-> dir, err |-> "Md5Mismatch"]
    ELSE IF env.unpackerr
    THEN [dir |-> Unpack(dir, env.entries, env.written), err |-> "ExtractionFailed"]
    ELSE IF ~env.tmpok
    THEN [dir |-> Unpack(dir, env.entries, Len(env.entries)), err |-> "IoError"]
    ELSE [dir |-> Unpack(dir, env.entries, Len(env.entries)), err |-> ""]

\* download_and_extract_tarball(url, output_path, md5): the directory after
\* the call and the error ("" for Ok).
download_and_extract_tarball(dir, md5, env) ==
    IF env.transport THEN [dir |-> dir, err |-> "ReqwestError"]
    ELSE IF env.status # StatusOK THEN [dir |-> dir, err |-> "DownloadFailed"]
    ELSE IF ~Md5Matches(env.hash, md5) THEN [dir |-> dir, err |-> "Md5Mismatch"]
    ELSE IF env.unpackerr
    THEN [dir |-> Unpack(dir, env.entries, env.written), err |-> "ExtractionFailed"]
    ELSE IF ~env.tmpok
    THEN [dir |-> Unpack(dir, env.entries, Len(env.entries)), err |-> "IoError"]
    ELSE [dir |-> Unpack(dir, env.entries, Len(env.entries)), err |-> ""]

\* ------------------------------------------------------------- results
NoDate == DNoDate

Ok(dbs) == [ok |-> TRUE, err |-> "", arg |-> "", date |-> NoDate, dbs |-> dbs]

Err(e) == [ok |-> FALSE, err |-> e, arg |-> "", date |-> NoDate, dbs |-> << >>]

ErrVersion(e, version) ==
    [ok |-> FALSE, err |-> e, arg |-> version, date |-> NoDate, dbs |-> << >>]

ErrDate(e, raw) == [ok |-> FALSE, err |-> e, arg |-> "", date |-> raw, dbs |-> << >>]

\* ------------------------------------------------------------ installer
\* fs::create_dir_all(database_root)
create_root(root) == IF root.exists THEN root ELSE [root EXCEPT !.exists = TRUE]

\* remove_dir_all replaced by the removal of the files directly in the
\* target: its db subdirectory stays.
reset_target_files_only(dir) == [EmptyDir EXCEPT !.hasdb = dir.hasdb, !.db = dir.db]

\* create_dir_all(&target_dir) without the remove_dir_all before it.
reset_target_keep(dir) == IF dir.exists THEN dir ELSE EmptyDir

\* if target_dir.exists() { remove_dir_all } ; create_dir_all(&target_dir)
reset_target(dir) == EmptyDir

\* download_release writing the metadata file before the download instead
\* of after it.
download_release_metadata_first(root, release, env, order) ==
    LET root1 == create_root(root)
        existing == find_installed_database(root1, release.version, order)
        target_dir == << release.version >>
        marked == write_metadata(reset_target(root1.sub[release.version]),
                                 release.version, release.added)
        got == download_and_extract_tarball(marked, release.md5, env)
    IN  IF existing # << >>
        THEN [fs |-> root1, res |-> Ok(existing), requests |-> 0]
        ELSE IF got.err # ""
        THEN [fs |-> [root1 EXCEPT !.sub[release.version] = got.dir],
              res |-> Err(got.err), requests |-> 1]
        ELSE IF ~validate_db_directory(got.dir).ok
        THEN [fs |-> [root1 EXCEPT !.sub[release.version] = got.dir],
              res |-> Err("ExtractionFailed"), requests |-> 1]
        ELSE [fs |-> [root1 EXCEPT !.sub[release.version] = got.dir],
              res |-> Ok(<< InstalledDatabase(release.version, target_dir, release.added) >>),
              requests |-> 1]

\* download_release(database_root, release): the root after the call, the
\* Result, and the number of tarball requests sent.
download_release(root, release, env, order) ==
    LET root1 == create_root(root)
        existing == find_installed_database(root1, release.version, order)
        target_dir == << release.version >>
        got == download_and_extract_tarball(reset_target(root1.sub[release.version]),
                                            release.md5, env)
        withmeta == write_metadata(got.dir, release.version, release.added)
    IN  IF existing # << >>
        THEN [fs |-> root1, res |-> Ok(existing), requests |-> 0]
        ELSE IF got.err # ""
        THEN [fs |-> [root1 EXCEPT !.sub[release.version] = got.dir],
              res |-> Err(got.err), requests |-> 1]
        ELSE IF ~validate_db_directory(withmeta).ok
        THEN [fs |-> [root1 EXCEPT !.sub[release.version] = withmeta],
              res |-> Err("ExtractionFailed"), requests |-> 1]
        ELSE [fs |-> [root1 EXCEPT !.sub[release.version] = withmeta],
              res |-> Ok(<< InstalledDatabase(release.version, target_dir, release.added) >>),
              requests |-> 1]

\* ------------------------------------------------------------- manifest
\* DatabaseConfig { default_version: Option<String>, databases: Vec<DatabaseRelease> }
DatabaseConfig(default_version, databases) ==
    [default_version |-> default_version, databases |-> databases]

\* find_release with the versions compared after lower-casing.
Lower(version) == IF version = "HPRC.r1" THEN "hprc.r1"
                  ELSE IF version = "HPRC.r2" THEN "hprc.r2" ELSE version

RECURSIVE FindIgnoreCase(_, _, _)
FindIgnoreCase(items, version, i) ==
    IF i > Len(items) THEN << >>
    ELSE IF Lower(items[i].version) = Lower(version) THEN << items[i] >>
    ELSE FindIgnoreCase(items, version, i + 1)

find_release_ignore_case(config, version) == FindIgnoreCase(config.databases, version, 1)

\* DatabaseConfig::find_release(version)
find_release(config, version) == FindVersion(config.databases, version, 1)

\* latest_release keeping the first of several equal maxima.
RECURSIVE MaxByFirst(_, _, _)
MaxByFirst(items, acc, i) ==
    IF i > Len(items) THEN acc
    ELSE MaxByFirst(items,
                    IF DateCmp(date_sort_key(items[i].added), date_sort_key(acc.added)) = 1
                    THEN items[i] ELSE acc,
                    i + 1)

latest_release_first_max(config) ==
    IF config.default_version # << >>
    THEN find_release(config, config.default_version[1])
    ELSE IF Len(config.databases) = 0 THEN << >>
    ELSE << MaxByFirst(config.databases, config.databases[1], 2) >>

\* DatabaseConfig::latest_release()
latest_release(config) ==
    IF config.default_version # << >>
    THEN find_release(config, config.default_version[1])
    ELSE max_by_added(config.databases)

\* DbSelection
Latest == [kind |-> "Latest", version |-> ""]

Version(v) == [kind |-> "Version", version |-> v]

All == [kind |-> "All", version |-> ""]

Selections == {Latest, All} \cup {Version(v) : v \in Requested}

\* Result<Vec<&DatabaseRelease>, DownloadError> of the match on the selection.
Selected(releases) == [ok |-> TRUE, releases |-> releases, res |-> Ok(<< >>)]

NotSelected(res) == [ok |-> FALSE, releases |-> << >>, res |-> res]

Reverse(items) == [i \in 1..Len(items) |-> items[Len(items) + 1 - i]]

\* select_releases with All collected back to front.
select_releases_reversed(config, selection) ==
    IF selection.kind = "Latest"
    THEN (IF latest_release(config) = << >>
          THEN NotSelected(Err("NoDatabasesAvailable"))
          ELSE Selected(latest_release(config)))
    ELSE IF selection.kind = "Version"
    THEN (IF find_release(config, selection.version) = << >>
          THEN NotSelected(ErrVersion("UnknownDatabaseVersion", selection.version))
          ELSE Selected(find_release(config, selection.version)))
    ELSE Selected(Reverse(config.databases))

\* select_releases with the emptiness of the manifest tested first.
select_releases_empty_first(config, selection) ==
    IF Len(config.databases) = 0
    THEN NotSelected(Err("NoDatabasesAvailable"))
    ELSE IF selection.kind = "Latest"
    THEN (IF latest_release(config) = << >>
          THEN NotSelected(Err("NoDatabasesAvailable"))
          ELSE Selected(latest_release(config)))
    ELSE IF selection.kind = "Version"
    THEN (IF find_release(config, selection.version) = << >>
          THEN NotSelected(ErrVersion("UnknownDatabaseVersion", selection.version))
          ELSE Selected(find_release(config, selection.version)))
    ELSE Selected(config.databases)

\* The match on the selection in download_database.
select_releases(config, selection) ==
    IF selection.kind = "Latest"
    THEN (IF latest_release(config) = << >>
          THEN NotSelected(Err("NoDatabasesAvailable"))
          ELSE Selected(latest_release(config)))
    ELSE IF selection.kind = "Version"
    THEN (IF find_release(config, selection.version) = << >>
          THEN NotSelected(ErrVersion("UnknownDatabaseVersion", selection.version))
          ELSE Selected(find_release(config, selection.version)))
    ELSE Selected(config.databases)

\* The match and the test that follows it: the releases to install, or the error.
resolve(config, selection) ==
    LET sel == select_releases(config, selection)
    IN  IF ~sel.ok THEN sel
        ELSE IF Len(sel.releases) = 0 THEN NotSelected(Err("NoDatabasesAvailable"))
        ELSE sel

\* What the manifest URL answers: a transport failure, a body that is no
\* manifest, or the text of a manifest.
Response(transport, parses, config) ==
    [transport |-> transport, parses |-> parses, config |-> config]

RECURSIVE FirstInvalidDate(_, _)
FirstInvalidDate(databases, i) ==
    IF i > Len(databases) THEN << >>
    ELSE IF ~parse_added_date(databases[i].added).ok THEN << databases[i].added >>
    ELSE FirstInvalidDate(databases, i + 1)

\* download_config without the loop over the added fields.
download_config_unvalidated(response) ==
    IF response.transport
    THEN [ok |-> FALSE, res |-> Err("ConfigDownloadFailed"), config |-> response.config]
    ELSE IF ~response.parses
    THEN [ok |-> FALSE, res |-> Err("ConfigParseFailed"), config |-> response.config]
    ELSE [ok |-> TRUE, res |-> Ok(<< >>), config |-> response.config]

\* download_config(): the parsed manifest, or the error.
download_config(response) ==
    IF response.transport
    THEN [ok |-> FALSE, res |-> Err("ConfigDownloadFailed"), config |-> response.config]
    ELSE IF ~response.parses
    THEN [ok |-> FALSE, res |-> Err("ConfigParseFailed"), config |-> response.config]
    ELSE IF FirstInvalidDate(response.config.databases, 1) # << >>
    THEN [ok |-> FALSE,
          res |-> ErrDate("InvalidDate", FirstInvalidDate(response.config.databases, 1)[1]),
          config |-> response.config]
    ELSE [ok |-> TRUE, res |-> Ok(<< >>), config |-> response.config]

\* Sequences of releases of length at most n.
SeqsUpTo(n) == UNION {[1..k -> Releases] : k \in 0..n}

Manifests ==
    {DatabaseConfig(d, dbs) :
        d \in {<< >>} \cup {<< v >> : v \in Versions}, dbs \in SeqsUpTo(MaxReleases)}

Responses ==
    {Response(TRUE, TRUE, DatabaseConfig(<< >>, << >>)),
     Response(FALSE, FALSE, DatabaseConfig(<< >>, << >>))}
    \cup {Response(FALSE, TRUE, c) : c \in Manifests}

\* ---------------------------------------------------------------- state
VARIABLES
    fs,        \* the database root on disk
    last,      \* the most recent download_release call: arguments and outcome
    scanned,   \* the most recent scanner query and what it returned
    call,      \* download_database: its selection, the manifest response, the root at entry
    pc,        \* download_database: "idle", "start", "installing" or "done"
    releases,  \* download_database: the releases selected (download.rs:117)
    pos,       \* download_database: the release the loop is at (download.rs:138)
    installed, \* download_database: the Vec of installed entries so far
    result,    \* download_database: the Result returned
    attempts,  \* download_database: the download_release calls made, in order
    procs,     \* two concurrent download_release calls: position and Result of each
    reader,    \* a Read + Seek stream: its bytes and its position
    returned   \* the most recent call on the stream or of compress and how it ended

vars ==
    << fs, last, scanned, call, pc, releases, pos, installed, result, attempts,
       procs, reader, returned >>

dbvars == << call, pc, releases, pos, installed, result, attempts >>

auxvars == << procs, reader, returned >>

\* Roots a run may start from: no directory, an empty one, and the
\* pre-versioning flat layout.
LegacyFlatRoot == [EmptyRoot EXCEPT !.files = required_files]

InitialRoots == {MissingRoot, EmptyRoot, LegacyFlatRoot}

ValidReleases == {r \in Releases : parse_added_date(r.added).ok}

RootKind(root) ==
    IF root = MissingRoot THEN "missing" ELSE IF root = EmptyRoot THEN "empty" ELSE "other"

\* How a call ended: "failed", "downloaded" (Ok after a download) or "cached"
\* (Ok without one).
Outcome(res, requests) ==
    IF ~res.ok THEN "failed" ELSE IF requests > 0 THEN "downloaded" ELSE "cached"

\* last.prior is the outcome of the call before, when it was for the same
\* version, and "none" otherwise.  last.stale tells that the target of the
\* call held something when the call began and no scan listed the version.
NoCall ==
    [called |-> FALSE, release |-> CHOOSE r \in ValidReleases : TRUE,
     res |-> Err(""), requests |-> 0, before |-> "other", prior |-> "none",
     stale |-> FALSE]

NoScan == [op |-> "none", order |-> << >>, out |-> << >>]

NoDbCall ==
    [selection |-> Latest,
     response |-> Response(TRUE, TRUE, DatabaseConfig(<< >>, << >>)),
     root |-> MissingRoot]

DbIdle ==
    /\ call = NoDbCall
    /\ pc = "idle"
    /\ releases = << >>
    /\ pos = 1
    /\ installed = << >>
    /\ result = Err("")
    /\ attempts = << >>

\* The processes of the race.
Procs == {"p1", "p2"}

NoProc == [pc |-> "idle", res |-> Err(""), requests |-> 0]

RaceIdle == procs = [p \in Procs |-> NoProc]

NoReader == [bytes |-> << >>, pos |-> 0]

NoReturn == [op |-> "none", format |-> "", outcome |-> "", before |-> 0]

StreamIdle == reader = NoReader /\ returned = NoReturn

\* ------------------------------------------------------- installer (Spec)
Init ==
    /\ fs \in InitialRoots
    /\ last = NoCall
    /\ scanned = NoScan
    /\ DbIdle
    /\ RaceIdle
    /\ StreamIdle

\* One call of download_release on the root.
Install ==
    /\ \E release \in ValidReleases, order \in ReadOrders :
         \E env \in EnvsFor(release.md5) :
           \E out \in {download_release(fs, release, env, order)} :
             /\ fs' = out.fs
             /\ last' = [called |-> TRUE, release |-> release,
                         res |-> out.res, requests |-> out.requests,
                         before |-> RootKind(fs),
                         prior |-> IF last.called /\ last.release.version = release.version
                                   THEN Outcome(last.res, last.requests) ELSE "none",
                         stale |-> /\ fs.sub[release.version].exists
                                   /\ fs.sub[release.version] # EmptyDir
                                   /\ ~Lists(fs, release.version, order)]
    /\ UNCHANGED << scanned, dbvars, auxvars >>

Next == Install

Spec == Init /\ [][Next]_vars

\* ------------------------------------------------------ scanner (SpecScan)
\* The directories a scan may meet: any layout of the required files with
\* any metadata file (none, one that does not parse, or a parsing one whose
\* date text may be no date).
Layouts ==
    {[files |-> {}, hasdb |-> FALSE, db |-> {}],
     [files |-> required_files, hasdb |-> FALSE, db |-> {}],
     [files |-> {}, hasdb |-> TRUE, db |-> required_files],
     [files |-> {"hash.k2d"}, hasdb |-> TRUE, db |-> {"opts.k2d", "taxo.k2d"}]}

GarbledMeta ==
    [present |-> TRUE, text |-> << [key |-> "version", str |-> "HPRC.r1", date |-> DNoDate] >>]

\* The added texts a metadata file may hold: those of a manifest and the
\* date of the legacy entry itself, which is a calendar date as well.
ScanDates == DateTexts \cup {LEGACY_ADDED_DATE}

MetaFiles ==
    {NoMeta, GarbledMeta}
    \cup {[present |-> TRUE, text |-> MetaToml(v, a)] : v \in Versions, a \in ScanDates}

ScanDirs ==
    {NoDir} \cup
    {[exists |-> TRUE, files |-> l.files, hasdb |-> l.hasdb, db |-> l.db, meta |-> m] :
        l \in Layouts, m \in MetaFiles}

\* Roots whose entries cannot be listed (no read permission) while the
\* paths under them can still be tested: each root layout and metadata file,
\* with no subdirectory or with HPRC.r1 installed.
UnreadableRoots ==
    {[exists |-> TRUE, files |-> l.files, hasdb |-> l.hasdb, db |-> l.db, meta |-> m,
      sub |-> [v \in Versions |-> IF v = "HPRC.r1" THEN d ELSE NoDir],
      readable |-> FALSE] :
        l \in {k \in Layouts : k.files = {} \/ k.db = {}},
        m \in {NoMeta, GarbledMeta, [present |-> TRUE, text |-> MetaToml("HPRC.r1", D2023)]},
        d \in {NoDir, write_metadata([EmptyDir EXCEPT !.files = required_files],
                                     "HPRC.r1", D2023)}}

ScanRoots ==
    {MissingRoot} \cup
    {[exists |-> TRUE, files |-> l.files, hasdb |-> l.hasdb, db |-> l.db, meta |-> m,
      sub |-> sub, readable |-> TRUE] :
        l \in {k \in Layouts : k.files = {} \/ k.db = {}},
        m \in {NoMeta, GarbledMeta, [present |-> TRUE, text |-> MetaToml("HPRC.r1", D2023)]},
        sub \in [Versions -> ScanDirs]}
    \cup UnreadableRoots

InitScan ==
    /\ fs \in ScanRoots
    /\ last = NoCall
    /\ scanned = NoScan
    /\ DbIdle
    /\ RaceIdle
    /\ StreamIdle

\* installed_databases(database_root)
ListInstalled ==
    /\ \E order \in ReadOrders :
         scanned' = [op |-> "list", order |-> order, out |-> installed_databases(fs, order)]
    /\ UNCHANGED << fs, last, dbvars, auxvars >>

\* latest_installed_database(database_root)
LatestInstalled ==
    /\ \E order \in ReadOrders :
         scanned' = [op |-> "latest", order |-> order,
                     out |-> latest_installed_database(fs, order)]
    /\ UNCHANGED << fs, last, dbvars, auxvars >>

\* write_metadata(dir, &InstalledMetadata{version, added}) on a directory
\* under the root, as test_metadata_roundtrip calls it: any version and any
\* text as the added field, a date or not.
WriteMetadata ==
    /\ \E name \in Versions, version \in Versions, added \in ScanDates :
         /\ fs.sub[name].exists
         /\ fs' = [fs EXCEPT !.sub[name] = write_metadata(@, version, added)]
         /\ scanned' = [op |-> "write", order |-> << name >>,
                        out |-> << InstalledDatabase(version, << name >>, added) >>]
    /\ UNCHANGED << last, dbvars, auxvars >>

NextScan == ListInstalled \/ LatestInstalled \/ WriteMetadata

SpecScan == InitScan /\ [][NextScan]_vars

\* ------------------------------------------- validation (SpecValidate)
\* Every directory over the required files: any of them directly in it,
\* and, when it has a db subdirectory, any of them in there; and no
\* directory at all.
ValidateRoots ==
    {MissingRoot} \cup
    {[EmptyRoot EXCEPT !.files = f] : f \in SUBSET required_files}
    \cup {[EmptyRoot EXCEPT !.files = f, !.hasdb = TRUE, !.db = d] :
            f \in SUBSET required_files, d \in SUBSET required_files}

InitValidate ==
    /\ fs \in ValidateRoots
    /\ last = NoCall
    /\ scanned = NoScan
    /\ DbIdle
    /\ RaceIdle
    /\ StreamIdle

\* validate_db_directory(path): scanned.order holds the location returned,
\* "." for path itself and "db" for path/db, and nothing on Err.
Validate ==
    /\ scanned.op = "none"
    /\ LET valid == validate_db_directory(AsDir(fs))
       IN  scanned' = [op |-> "validate",
                       order |-> IF valid.ok THEN << valid.at >> ELSE << >>,
                       out |-> << >>]
    /\ UNCHANGED << fs, last, dbvars, auxvars >>

NextValidate == Validate

SpecValidate == InitValidate /\ [][NextValidate]_vars

\* ------------------------------------------------ download_database (SpecDb)
\* One call of download_database: the selection and what the manifest URL
\* answers are drawn at the start, the root is empty, missing, or holds
\* HPRC.r1 installed or half unpacked.
InstalledR1 ==
    write_metadata(Unpack(EmptyDir, NestedArchive, Len(NestedArchive)), "HPRC.r1", D2023)

DbRoots ==
    {MissingRoot, EmptyRoot,
     [EmptyRoot EXCEPT !.sub["HPRC.r1"] = InstalledR1],
     [EmptyRoot EXCEPT !.sub["HPRC.r1"] = Unpack(EmptyDir, NestedArchive, 1)]}

InitDb ==
    /\ fs \in DbRoots
    /\ last = NoCall
    /\ scanned = NoScan
    /\ \E selection \in Selections, response \in Responses :
         call = [selection |-> selection, response |-> response, root |-> fs]
    /\ pc = "start"
    /\ releases = << >>
    /\ pos = 1
    /\ installed = << >>
    /\ result = Err("")
    /\ attempts = << >>
    /\ RaceIdle
    /\ StreamIdle

\* download_database up to the loop: download_config, the match on the
\* selection, the test for no release (download.rs:116-135).
Resolve ==
    /\ pc = "start"
    /\ LET cfg == download_config(call.response)
           sel == resolve(cfg.config, call.selection)
       IN  IF ~cfg.ok
           THEN /\ result' = cfg.res
                /\ pc' = "done"
                /\ releases' = << >>
           ELSE IF ~sel.ok
           THEN /\ result' = sel.res
                /\ pc' = "done"
                /\ releases' = << >>
           ELSE /\ result' = result
                /\ pc' = "installing"
                /\ releases' = sel.releases
    /\ UNCHANGED << fs, last, scanned, call, pos, installed, attempts, auxvars >>

\* The ? of download.rs:140 applied to an Ok as well: no error leaves the loop.
propagates_never(res) == FALSE

\* The ? of download.rs:140: an Err leaves the function at once.
propagates(res) == ~res.ok

\* One turn of the loop (download.rs:138-141) and, after the last release,
\* the return of the Vec (download.rs:143).  attempts records the call of
\* download_release: its release, whether a scan listed the version when the
\* call began, the requests it sent and its error ("" for Ok).
InstallNext ==
    /\ pc = "installing"
    /\ \E order \in ReadOrders : \E env \in EnvsFor(releases[pos].md5) :
         \E out \in {download_release(fs, releases[pos], env, order)} :
           /\ fs' = out.fs
           /\ attempts' = Append(attempts,
                              [version |-> releases[pos].version,
                               listed |-> Lists(fs, releases[pos].version, order),
                               requests |-> out.requests,
                               err |-> out.res.err])
           /\ IF propagates(out.res)
              THEN /\ result' = out.res
                   /\ pc' = "done"
                   /\ UNCHANGED << pos, installed >>
              ELSE /\ installed' = installed \o out.res.dbs
                   /\ pos' = pos + 1
                   /\ IF pos = Len(releases)
                      THEN /\ result' = Ok(installed')
                           /\ pc' = "done"
                      ELSE /\ result' = result
                           /\ pc' = pc
    /\ UNCHANGED << last, scanned, call, releases, auxvars >>

NextDb == Resolve \/ InstallNext

SpecDb == InitDb /\ [][NextDb]_vars

\* ------------------------------------- concurrent installs (SpecRace)
\* Two processes call download_release for the same release on the same
\* root.  Each runs the statements of download.rs:223-257 in order, one
\* statement a step, and the steps of the two interleave in any way.
RaceRelease == [version |-> "HPRC.r1", md5 |-> Md5Of("HPRC.r1"), added |-> D2023]

RaceRoots ==
    {MissingRoot, EmptyRoot,
     [EmptyRoot EXCEPT !.sub["HPRC.r1"] = Unpack(EmptyDir, NestedArchive, 1)]}

Target == fs.sub[RaceRelease.version]

InitRace ==
    /\ fs \in RaceRoots
    /\ last = NoCall
    /\ scanned = NoScan
    /\ DbIdle
    /\ procs = [p \in Procs |-> [NoProc EXCEPT !.pc = "start"]]
    /\ StreamIdle

\* The process moves to `pc`; nothing but fs and procs changes.
Goto(p, pc1) ==
    /\ procs' = [procs EXCEPT ![p].pc = pc1]
    /\ UNCHANGED << last, scanned, dbvars, reader, returned >>

\* The process returns `res`, having sent `requests` requests.
Return(p, res, requests) ==
    /\ procs' = [procs EXCEPT ![p] = [pc |-> "done", res |-> res, requests |-> requests]]
    /\ UNCHANGED << last, scanned, dbvars, reader, returned >>

\* fs::create_dir_all(database_root)  (download.rs:223)
CreateRoot(p) ==
    /\ procs[p].pc = "start"
    /\ fs' = create_root(fs)
    /\ Goto(p, "find")

\* find_installed_database and the early return  (download.rs:226-232)
FindExisting(p) ==
    /\ procs[p].pc = "find"
    /\ fs' = fs
    /\ \E order \in ReadOrders :
         LET existing == find_installed_database(fs, RaceRelease.version, order)
         IN  IF existing # << >> THEN Return(p, Ok(existing), 0) ELSE Goto(p, "remove")

\* if target_dir.exists() { fs::remove_dir_all(&target_dir) }  (download.rs:234-236)
RemoveTarget(p) ==
    /\ procs[p].pc = "remove"
    /\ fs' = IF Target.exists THEN [fs EXCEPT !.sub[RaceRelease.version] = NoDir] ELSE fs
    /\ Goto(p, "create")

\* fs::create_dir_all(&target_dir)  (download.rs:237)
CreateTarget(p) ==
    /\ procs[p].pc = "create"
    /\ fs' = IF Target.exists THEN fs ELSE [fs EXCEPT !.sub[RaceRelease.version] = EmptyDir]
    /\ Goto(p, "fetch")

\* download_and_extract_tarball(...)?  (download.rs:239)
FetchAndExtract(p) ==
    /\ procs[p].pc = "fetch"
    /\ \E env \in EnvsFor(RaceRelease.md5) :
         LET got == download_and_extract_tarball(Target, RaceRelease.md5, env)
         IN  /\ fs' = [fs EXCEPT !.sub[RaceRelease.version] = got.dir]
             /\ IF got.err # "" THEN Return(p, Err(got.err), 1) ELSE Goto(p, "meta")

\* write_metadata(&target_dir, ...)?  (download.rs:241-247): fs::write fails
\* when the directory is gone.
WriteTargetMetadata(p) ==
    /\ procs[p].pc = "meta"
    /\ IF Target.exists
       THEN /\ fs' = [fs EXCEPT !.sub[RaceRelease.version] =
                          write_metadata(@, RaceRelease.version, RaceRelease.added)]
            /\ Goto(p, "validate")
       ELSE /\ fs' = fs
            /\ Return(p, Err("IoError"), 1)

\* validate_db_directory(&target_dir) and the return  (download.rs:249-257)
ValidateTarget(p) ==
    /\ procs[p].pc = "validate"
    /\ fs' = fs
    /\ IF validate_db_directory(Target).ok
       THEN Return(p, Ok(<< InstalledDatabase(RaceRelease.version,
                                              << RaceRelease.version >>,
                                              RaceRelease.added) >>), 1)
       ELSE Return(p, Err("ExtractionFailed"), 1)

NextRace ==
    \E p \in Procs :
      \/ CreateRoot(p)
      \/ FindExisting(p)
      \/ RemoveTarget(p)
      \/ CreateTarget(p)
      \/ FetchAndExtract(p)
      \/ WriteTargetMetadata(p)
      \/ ValidateTarget(p)

SpecRace == InitRace /\ [][NextRace]_vars

\* ------------------------------------------------------- installer claims
\* The environments in which download, checksum, archive and temporary file
\* are all good: the archive unpacks whole into a layout that validates.
GoodEnvs(md5) ==
    {GoodEnv(md5, a) : a \in {b \in Archives :
        validate_db_directory(Unpack(EmptyDir, b, Len(b))).ok}}

\* C1: after a release was installed by download into an empty (or not yet
\* created) root, installing the same release again sends no request, returns
\* the same InstalledDatabase (version, path, added) and leaves the root as it
\* is, so the two calls download and extract once.
C1_SecondInstallIsNoOp ==
    (last.called /\ last.res.ok /\ last.requests = 1 /\ last.before \in {"missing", "empty"})
    => \A order \in ReadOrders : \A env \in GoodEnvs(last.release.md5) :
         LET again == download_release(fs, last.release, env, order)
         IN  /\ again.requests = 0
             /\ last.requests + again.requests = 1
             /\ again.res = last.res
             /\ again.res.dbs[1].version = last.release.version
             /\ again.res.dbs[1].path = << last.release.version >>
             /\ again.res.dbs[1].added = last.release.added
             /\ again.fs = fs

\* C1 witness: the second of two installs of one release, the first of which
\* downloaded it; the root holds nothing but that version.
C1_Witness ==
    /\ last.called /\ last.prior = "downloaded" /\ last.res.ok /\ last.requests = 0
    /\ \A v \in Versions : fs.sub[v].exists <=> v = last.release.version
    /\ fs.files = {} /\ ~fs.hasdb /\ ~fs.meta.present

\* C2: when the body downloaded for a release does not hash to its md5, the
\* install fails with Md5Mismatch, the target directory holds nothing, and
\* find_installed_database gives None for the version afterwards.
C2_ChecksumMismatch ==
    \A release \in ValidReleases, order \in ReadOrders :
      \A env \in EnvsFor(release.md5) :
        LET out == download_release(fs, release, env, order)
        IN  (out.requests = 1 /\ ~env.transport /\ env.status = StatusOK
               /\ env.hash # release.md5)
            => /\ out.res = Err("Md5Mismatch")
               /\ out.fs.sub[release.version] = EmptyDir
               /\ \A o \in ReadOrders :
                    find_installed_database(out.fs, release.version, o) = << >>

\* C2 witness: an install has just failed on the checksum.
C2_Witness ==
    /\ last.called /\ last.res.err = "Md5Mismatch" /\ last.requests = 1
    /\ fs.sub[last.release.version] = EmptyDir

AddedDate(raw) ==
    IF parse_added_date(raw).ok THEN << raw.y, raw.m, raw.d >> ELSE << 1970, 1, 1 >>

NotBefore(a, b) ==
    \/ a[1] > b[1]
    \/ a[1] = b[1] /\ a[2] > b[2]
    \/ a[1] = b[1] /\ a[2] = b[2] /\ a[3] >= b[3]

\* C4: a root holding hash.k2d, opts.k2d and taxo.k2d directly, no metadata
\* file and nothing else lists exactly one entry: version "legacy", the root
\* as path, added "1970-01-01".
C4_LegacyRoot ==
    (/\ scanned.op = "list"
     /\ fs.exists /\ fs.files = {"hash.k2d", "opts.k2d", "taxo.k2d"}
     /\ ~fs.hasdb /\ ~fs.meta.present
     /\ \A v \in Versions : ~fs.sub[v].exists)
    => scanned.out = << [version |-> "legacy", path |-> << >>,
                         added |-> [y |-> 1970, m |-> 1, d |-> 1]] >>

\* C4 witness: the flat legacy root has been listed.
C4_Witness ==
    scanned.op = "list" /\ fs = LegacyFlatRoot /\ Len(scanned.out) = 1

\* C5: latest_installed_database is None exactly when nothing is listed;
\* otherwise it is a listed entry whose added date is not before that of any
\* listed entry; of two entries dated 2023-01-01 and 2024-01-01 it is the
\* 2024-01-01 one, in whatever order the directory is read.
C5_LatestInstalled ==
    scanned.op = "latest"
    => LET listed == installed_databases(fs, scanned.order)
       IN  /\ (scanned.out = << >>) <=> (listed = << >>)
           /\ scanned.out # << >>
              => /\ \E i \in 1..Len(listed) : listed[i] = scanned.out[1]
                 /\ \A i \in 1..Len(listed) :
                      NotBefore(AddedDate(scanned.out[1].added), AddedDate(listed[i].added))
           /\ (Len(listed) = 2 /\ {listed[1].added, listed[2].added} = {D2023, D2024})
              => scanned.out[1].added = D2024

\* C5 witness: two versions are listed, the 2024-01-01 one first and the
\* 2023-01-01 one second, and the 2024-01-01 one is returned.
C5_Witness ==
    /\ scanned.op = "latest"
    /\ LET listed == installed_databases(fs, scanned.order)
       IN  /\ Len(listed) = 2
           /\ listed[1].added = D2024 /\ listed[2].added = D2023
           /\ listed[1].version # listed[2].version
    /\ scanned.out # << >>
    /\ scanned.out[1].added = D2024

\* ----------------------------------------------------- selection claims
\* The manifest was fetched: the response arrived, parsed, and every added
\* field is a date.
Fetched ==
    /\ ~call.response.transport
    /\ call.response.parses
    /\ \A i \in 1..Len(call.response.config.databases) :
         parse_added_date(call.response.config.databases[i].added).ok

Listed == call.response.config.databases

\* C6: Version(v) selects a release only if its version string is v itself;
\* when no release has version v the call fails with
\* UnknownDatabaseVersion(v) and the root is as it was at entry.
C6_SpecificVersion ==
    (pc # "start" /\ Fetched /\ call.selection.kind = "Version")
    => IF \E i \in 1..Len(Listed) : Listed[i].version = call.selection.version
       THEN /\ Len(releases) = 1
            /\ releases[1].version = call.selection.version
            /\ \E i \in 1..Len(Listed) : Listed[i] = releases[1]
       ELSE /\ pc = "done"
            /\ result = [ok |-> FALSE, err |-> "UnknownDatabaseVersion",
                          arg |-> call.selection.version, date |-> NoDate, dbs |-> << >>]
            /\ releases = << >> /\ installed = << >>
            /\ fs = call.root

\* C6 witness: "hprc.r1" was asked for from a manifest that lists "HPRC.r1",
\* and the call failed with UnknownDatabaseVersion("hprc.r1").
C6_Witness ==
    /\ pc = "done" /\ Fetched
    /\ call.selection = Version("hprc.r1")
    /\ \E i \in 1..Len(Listed) : Listed[i].version = "HPRC.r1"
    /\ result.err = "UnknownDatabaseVersion" /\ result.arg = "hprc.r1"
    /\ fs = call.root

\* C7: All on a manifest with no release fails with NoDatabasesAvailable and
\* installs nothing; on any other manifest it selects every release, in the
\* order of the manifest.
C7_SelectAll ==
    (pc # "start" /\ Fetched /\ call.selection.kind = "All")
    => IF Len(Listed) = 0
       THEN /\ pc = "done"
            /\ result.err = "NoDatabasesAvailable" /\ ~result.ok
            /\ installed = << >>
            /\ fs = call.root
       ELSE releases = Listed

\* C7 witness: All on an empty manifest has failed with NoDatabasesAvailable.
C7_Witness ==
    /\ pc = "done" /\ Fetched /\ call.selection.kind = "All"
    /\ Len(Listed) = 0
    /\ result.err = "NoDatabasesAvailable"
    /\ fs = call.root

\* C8 as stated: every selection on a manifest with no release yields
\* NoDatabasesAvailable.
C8_AnyPolicyNoDatabases ==
    (pc # "start" /\ Fetched /\ Len(Listed) = 0)
    => (pc = "done" /\ result.err = "NoDatabasesAvailable")

\* C8 as amended: on a manifest with no release Latest and All yield
\* NoDatabasesAvailable, and Version(v) yields UnknownDatabaseVersion(v).
C8_EmptyManifest ==
    (pc # "start" /\ Fetched /\ Len(Listed) = 0)
    => /\ pc = "done"
       /\ ~result.ok
       /\ IF call.selection.kind = "Version"
          THEN result.err = "UnknownDatabaseVersion" /\ result.arg = call.selection.version
          ELSE result.err = "NoDatabasesAvailable"

\* C8 witness: Version(v) on an empty manifest has failed with
\* UnknownDatabaseVersion(v).
C8_Witness ==
    /\ pc = "done" /\ Fetched /\ Len(Listed) = 0
    /\ call.selection.kind = "Version"
    /\ result.err = "UnknownDatabaseVersion" /\ result.arg = call.selection.version

\* C9: Latest with default_version set to the version of a release selects
\* a release of that version, whatever the dates; with default_version unset
\* it selects a release whose added date is the greatest, and of several
\* with the greatest date the last in the manifest.
C9_SelectLatest ==
    (pc # "start" /\ Fetched /\ call.selection.kind = "Latest" /\ Len(Listed) > 0)
    => LET default == call.response.config.default_version
       IN  IF default # << >>
           THEN (\E i \in 1..Len(Listed) : Listed[i].version = default[1])
                => /\ Len(releases) = 1
                   /\ releases[1].version = default[1]
                   /\ \E i \in 1..Len(Listed) : Listed[i] = releases[1]
           ELSE /\ Len(releases) = 1
                /\ \E i \in 1..Len(Listed) :
                     /\ releases[1] = Listed[i]
                     /\ \A j \in 1..Len(Listed) :
                          NotBefore(AddedDate(Listed[i].added), AddedDate(Listed[j].added))
                     /\ \A j \in (i + 1)..Len(Listed) :
                          AddedDate(Listed[j].added) # AddedDate(Listed[i].added)

\* C9 witness: no default_version, two releases of different versions with
\* the same date, and the second one is selected.
C9_Witness ==
    /\ pc # "start" /\ Fetched /\ call.selection.kind = "Latest"
    /\ call.response.config.default_version = << >>
    /\ Len(Listed) = 2
    /\ Listed[1].added = Listed[2].added /\ Listed[1].version # Listed[2].version
    /\ releases = << Listed[2] >>

\* C10 as stated: Latest with a default_version that no release of a
\* manifest with releases has fails with UnknownDatabaseVersion.
C10_AbsentDefaultVersion ==
    (/\ pc # "start" /\ Fetched /\ call.selection.kind = "Latest"
     /\ Len(Listed) > 0
     /\ call.response.config.default_version # << >>
     /\ \A i \in 1..Len(Listed) :
          Listed[i].version # call.response.config.default_version[1])
    => (pc = "done" /\ result.err = "UnknownDatabaseVersion")

\* ---------------------------------------------------------- batch claims
\* C11: All installs the releases one at a time in the order of the
\* manifest: the i-th call of download_release is for the i-th release and
\* begins only after the calls before it returned Ok.  When the call for the
\* release at position k fails, it is the last call, download_database
\* returns its error, and the directory of every release listed after k (and
\* not also at or before k) is as it was at entry.
C11_AllStopsAtFirstFailure ==
    (Fetched /\ call.selection.kind = "All")
    => /\ Len(attempts) <= Len(Listed)
       /\ pc = "installing" => pos = Len(attempts) + 1
       /\ \A i \in 1..Len(attempts) : attempts[i].version = Listed[i].version
       /\ \A k \in 1..Len(attempts) :
            attempts[k].err # ""
            => /\ k = Len(attempts)
               /\ pc = "done" /\ ~result.ok /\ result.err = attempts[k].err
               /\ \A j \in (k + 1)..Len(Listed) :
                    (\A i \in 1..k : Listed[i].version # Listed[j].version)
                    => fs.sub[Listed[j].version] = call.root.sub[Listed[j].version]

\* C11 witness: All on a manifest of two versions has failed on the first;
\* one call of download_release was made and the second version has no
\* directory.
C11_Witness ==
    /\ pc = "done" /\ Fetched /\ call.selection.kind = "All"
    /\ Len(Listed) = 2 /\ Listed[1].version # Listed[2].version
    /\ Len(attempts) = 1 /\ attempts[1].err # "" /\ result.err = attempts[1].err
    /\ ~fs.sub[Listed[2].version].exists

\* C12: when the manifest arrives and parses, download_config returns it only
\* if the added field of every release is a calendar date.  If some added
\* field is none, the call fails with InvalidDate carrying the text of the
\* first such field, no release is selected from the manifest and nothing is
\* installed; otherwise every release selected has a calendar date.
C12_ManifestDatesValidated ==
    (pc # "start" /\ ~call.response.transport /\ call.response.parses)
    => IF \E i \in 1..Len(Listed) : Listed[i].added \notin ValidTexts
       THEN /\ ~download_config(call.response).ok
            /\ pc = "done" /\ ~result.ok /\ result.err = "InvalidDate"
            /\ result.date \notin ValidTexts
            /\ \E i \in 1..Len(Listed) :
                 /\ Listed[i].added = result.date
                 /\ \A j \in 1..(i - 1) : Listed[j].added \in ValidTexts
            /\ releases = << >> /\ installed = << >> /\ attempts = << >>
            /\ fs = call.root
       ELSE /\ download_config(call.response).ok
            /\ download_config(call.response).config = call.response.config
            /\ \A i \in 1..Len(releases) : releases[i].added \in ValidTexts

\* C12 witness: HPRC.r1 was asked for from a manifest whose first release is
\* HPRC.r1 with a calendar date and whose second release is dated 30
\* February; the call failed with InvalidDate carrying that text.
C12_Witness ==
    /\ pc = "done" /\ ~call.response.transport /\ call.response.parses
    /\ call.selection = Version("HPRC.r1")
    /\ Len(Listed) = 2
    /\ Listed[1].version = "HPRC.r1" /\ Listed[1].added \in ValidTexts
    /\ Listed[2].added = DFeb30
    /\ result.err = "InvalidDate" /\ result.date = DFeb30
    /\ fs = call.root

C14_LegacySortsOldest ==
    scanned.op = "latest"
    => LET listed == installed_databases(fs, scanned.order)
       IN  (/\ \E i \in 1..Len(listed) :
                 listed[i].version = LEGACY_VERSION /\ listed[i].path = << >>
            /\ \E i \in 1..Len(listed) : listed[i].path # << >>)
           => /\ scanned.out # << >>
              /\ scanned.out[1].path # << >>
              /\ scanned.out[1].version # LEGACY_VERSION

\* ----------------------------------------------------- extraction claims
\* The directory holds every required file directly or under db.
HasMarkers(dir) ==
    \/ dir.exists /\ required_files \subseteq dir.files
    \/ dir.exists /\ dir.hasdb /\ required_files \subseteq dir.db

\* The request is answered 200 with a body of the release's digest that
\* unpacks without error.
StagesSucceed(env, release) ==
    /\ ~env.transport /\ env.status = StatusOK
    /\ env.hash = release.md5
    /\ ~env.unpackerr /\ env.written = Len(env.entries)

\* C15: when download, checksum and extraction succeed and the target holds
\* the required files, the install returns Ok and the metadata file is
\* written, even if the temporary file cannot be removed.
C15_TempRemovalBestEffort ==
    \A release \in ValidReleases, order \in ReadOrders :
      \A env \in EnvsFor(release.md5) :
        LET out == download_release(fs, release, env, order)
        IN  (/\ out.requests = 1
             /\ StagesSucceed(env, release)
             /\ HasMarkers(Unpack(EmptyDir, env.entries, Len(env.entries)))
             /\ ~env.tmpok)
            => /\ out.res.ok
               /\ read_metadata(out.fs.sub[release.version]).ok

\* C16: when download_and_extract_tarball returns Ok and the target holds
\* the required files neither directly nor under db, the install fails with
\* ExtractionFailed; the target stays, holding what was unpacked and the
\* metadata file of the release, and no scan lists the version.
C16_ValidationFailureLeavesTarget ==
    \A release \in ValidReleases, order \in ReadOrders :
      \A env \in EnvsFor(release.md5) :
        LET out == download_release(fs, release, env, order)
            dir == out.fs.sub[release.version]
            unpacked == {env.entries[i] : i \in 1..Len(env.entries)}
        IN  (/\ StagesSucceed(env, release) /\ env.tmpok
             /\ out.requests = 1
             /\ ~HasMarkers(dir))
            => /\ out.res = Err("ExtractionFailed")
               /\ dir.exists
               /\ dir.files = {e.name : e \in {x \in unpacked : ~x.indb}}
               /\ dir.db = {e.name : e \in {x \in unpacked : x.indb}}
               /\ read_metadata(dir) =
                    [ok |-> TRUE, version |-> release.version, added |-> release.added]
               /\ \A o \in ReadOrders :
                    /\ ~Lists(out.fs, release.version, o)
                    /\ find_installed_database(out.fs, release.version, o) = << >>

\* C16 witness: an install has failed with ExtractionFailed after unpacking
\* hash.k2d into the target and the two other files into its db, and the
\* target holds them and the metadata file.
C16_Witness ==
    /\ last.called /\ last.res.err = "ExtractionFailed" /\ last.requests = 1
    /\ fs.sub[last.release.version].files = {"hash.k2d"}
    /\ fs.sub[last.release.version].db = {"opts.k2d", "taxo.k2d"}
    /\ read_metadata(fs.sub[last.release.version]).ok
    /\ \A o \in ReadOrders : ~Lists(fs, last.release.version, o)

\* ------------------------------------------------------- deletion claims
\* C17: when the target directory exists at the call and the scan does not
\* list the version, the install sends its request and the target ends up
\* exactly as it would had it not existed: it holds only entries of the new
\* archive and, if any, the metadata of this release, also when the install
\* fails.
C17_UnlistedTargetIsDeleted ==
    \A release \in ValidReleases, order \in ReadOrders :
      (fs.sub[release.version].exists /\ ~Lists(fs, release.version, order))
      => \A env \in EnvsFor(release.md5) :
           LET out == download_release(fs, release, env, order)
               fresh == download_release([fs EXCEPT !.sub[release.version] = NoDir],
                                         release, env, order)
               dir == out.fs.sub[release.version]
               unpacked == {env.entries[i] : i \in 1..Len(env.entries)}
           IN  /\ out.requests = 1
               /\ out.res = fresh.res
               /\ dir = fresh.fs.sub[release.version]
               /\ dir.files \subseteq {e.name : e \in {x \in unpacked : ~x.indb}}
               /\ dir.db \subseteq {e.name : e \in {x \in unpacked : x.indb}}
               /\ dir.meta.present
                  => dir.meta.text = MetaToml(release.version, release.added)
               /\ (env.transport \/ env.status # StatusOK \/ env.hash # release.md5)
                  => dir = EmptyDir

\* C17 witness: an install found its target holding files of an earlier
\* attempt, not listed, and failed before unpacking; the target is empty.
C17_Witness ==
    /\ last.called /\ last.stale /\ last.requests = 1
    /\ last.res.err \in {"ReqwestError", "DownloadFailed", "Md5Mismatch"}
    /\ fs.sub[last.release.version] = EmptyDir

\* ------------------------------------------------------- request claims
\* C18: within one call of download_database there is at most one call of
\* download_release for each selected release, in order; it sends no request
\* when the scan lists the version as it begins and exactly one otherwise,
\* so no version is requested twice.  A call that fails is the last one and
\* its error is the result of download_database; a call that returns Ok has
\* gone through every selected release.
C18_OneRequestNoRetry ==
    /\ Len(attempts) <= Len(releases)
    /\ \A i \in 1..Len(attempts) :
         /\ attempts[i].version = releases[i].version
         /\ attempts[i].requests = (IF attempts[i].listed THEN 0 ELSE 1)
         /\ attempts[i].listed => attempts[i].err = ""
         /\ attempts[i].err # ""
            => /\ i = Len(attempts)
               /\ pc = "done" /\ ~result.ok /\ result.err = attempts[i].err
    /\ \A v \in Versions :
         Cardinality({i \in 1..Len(attempts) :
                        attempts[i].version = v /\ attempts[i].requests > 0}) <= 1
    /\ (pc = "done" /\ result.ok)
       => /\ Len(attempts) = Len(releases)
          /\ \A i \in 1..Len(attempts) : attempts[i].err = ""

\* C18 witness: a call for two versions has returned Ok; the first version
\* was listed and caused no request, the second was not and caused one.
C18_Witness ==
    /\ pc = "done" /\ result.ok
    /\ Len(attempts) = 2
    /\ attempts[1].listed /\ attempts[1].requests = 0
    /\ ~attempts[2].listed /\ attempts[2].requests = 1
    /\ attempts[1].version # attempts[2].version

\* --------------------------------------------------------- stage claims
\* Every combination of a status, a digest and a body that is or is not a
\* gzip stream.
StageEnvs(md5) ==
    {[GoodEnv(h, FlatArchive) EXCEPT
        !.status = st, !.unpackerr = bad,
        !.written = IF bad THEN 0 ELSE Len(FlatArchive)] :
        st \in {StatusOK, 404}, h \in Hashes, bad \in BOOLEAN}

\* C19: download_and_extract_tarball on any directory under the root, once
\* the response has arrived: a status other than 200 gives DownloadFailed
\* and the directory is untouched, whatever the digest and the body; status
\* 200 with another digest gives Md5Mismatch and the directory is untouched,
\* whatever the body; status 200, the right digest and a body that does not
\* unpack give ExtractionFailed.
C19_FirstFailingStage ==
    \A release \in ValidReleases, v \in Versions :
      \A env \in EnvsFor(release.md5) \cup StageEnvs(release.md5) :
        LET got == download_and_extract_tarball(fs.sub[v], release.md5, env)
        IN  ~env.transport
            => /\ env.status # StatusOK
                  => got.err = "DownloadFailed" /\ got.dir = fs.sub[v]
               /\ (env.status = StatusOK /\ env.hash # release.md5)
                  => got.err = "Md5Mismatch" /\ got.dir = fs.sub[v]
               /\ (env.status = StatusOK /\ env.hash = release.md5 /\ env.unpackerr)
                  => got.err = "ExtractionFailed"

\* C19 witness: an install was answered 404, with a temporary file of
\* another digest that holds no gzip stream; it failed with DownloadFailed
\* and its target is empty.
C19_Witness ==
    /\ last.called /\ last.requests = 1
    /\ last.res.err = "DownloadFailed"
    /\ fs.sub[last.release.version] = EmptyDir

EntriesAt(listed, name) == {i \in 1..Len(listed) : listed[i].path = << name >>}

\* The subdirectory has a metadata file that parses and holds every
\* required file directly or under db.
Usable(dir) == dir.exists /\ read_metadata(dir).ok /\ HasMarkers(dir)

\* For each subdirectory name there is an entry if and only if the
\* subdirectory is usable, then exactly one, with the version and the added
\* text of its metadata file.
ListsUsableSubdirs(root, listed) ==
    \A name \in Versions :
      /\ (EntriesAt(listed, name) # {}) <=> Usable(root.sub[name])
      /\ Cardinality(EntriesAt(listed, name)) <= 1
      /\ \A i \in EntriesAt(listed, name) :
           /\ listed[i].version = read_metadata(root.sub[name]).version
           /\ listed[i].added = read_metadata(root.sub[name]).added

\* C21 as stated: a listing of a missing or unreadable root is empty, and
\* every listing has an entry for a subdirectory exactly when it is usable.
C21_ScanListsUsableSubdirs ==
    scanned.op = "list"
    => /\ (~fs.exists \/ ~fs.readable) => scanned.out = << >>
       /\ ListsUsableSubdirs(fs, scanned.out)

\* C21 as the code has it: a listing of a missing root is empty; a listing
\* of a root whose entries cannot be read has no entry of a subdirectory
\* (the legacy entry of the root may still be there); a listing of a root
\* that can be read has an entry for a subdirectory exactly when it is
\* usable.  Every entry is one of a subdirectory or the legacy entry: the
\* files of the root give none.
C21_ScanOfReadableRoot ==
    scanned.op = "list"
    => /\ ~fs.exists => scanned.out = << >>
       /\ (fs.exists /\ ~fs.readable)
          => \A name \in Versions : EntriesAt(scanned.out, name) = {}
       /\ (fs.exists /\ fs.readable) => ListsUsableSubdirs(fs, scanned.out)
       /\ \A i \in 1..Len(scanned.out) :
            \/ \E name \in Versions : scanned.out[i].path = << name >>
            \/ scanned.out[i] = InstalledDatabase(LEGACY_VERSION, << >>, LEGACY_ADDED_DATE)

\* C21 witness: a root that cannot be read holds the required files and an
\* installed HPRC.r1; the listing is the legacy entry alone.
C21_Witness ==
    /\ scanned.op = "list"
    /\ fs.exists /\ ~fs.readable
    /\ Usable(fs.sub["HPRC.r1"])
    /\ scanned.out = << InstalledDatabase(LEGACY_VERSION, << >>, LEGACY_ADDED_DATE) >>

\* The entries of a listing that are the legacy entry.
LegacyAt(listed) ==
    {i \in 1..Len(listed) : listed[i].version = LEGACY_VERSION /\ listed[i].path = << >>}

C23_ValidateDirectOrDb ==
    scanned.op = "validate"
    => LET direct == fs.exists /\ {"hash.k2d", "opts.k2d", "taxo.k2d"} \subseteq fs.files
           nested == fs.exists /\ fs.hasdb
                     /\ {"hash.k2d", "opts.k2d", "taxo.k2d"} \subseteq fs.db
       IN  /\ (scanned.order # << >>) <=> (direct \/ nested)
           /\ direct => scanned.order = << "." >>
           /\ (~direct /\ nested) => scanned.order = << "db" >>

\* C23 witness: the directory and its db both hold the three files, and the
\* directory itself was returned.
C23_Witness ==
    /\ scanned.op = "validate"
    /\ fs.files = required_files /\ fs.hasdb /\ fs.db = required_files
    /\ scanned.order = << "." >>

\* ------------------------------------------------------------ race claims
\* The process has passed its test for an existing install without finding
\* one and has removed the target since, without installing it itself: it is
\* between the removal and its return, or has returned an error.
Healing(q) ==
    \/ procs[q].pc \in {"create", "fetch", "meta", "validate"}
    \/ procs[q].pc = "done" /\ ~procs[q].res.ok

\* C24: the two processes are not coordinated.  A process that has returned
\* Ok can find its version not listed afterwards, and that happens only
\* through the other process: whenever a process has returned Ok and no scan
\* lists the version, the other process is past its removal of the target
\* and has not installed the version.
C24_SuccessLostOnlyToOtherProcess ==
    \A p \in Procs :
      (/\ procs[p].pc = "done" /\ procs[p].res.ok
       /\ \A order \in ReadOrders : ~Lists(fs, RaceRelease.version, order))
      => \E q \in Procs \ {p} : Healing(q)

\* C24 witness: one process has downloaded, installed and returned Ok; the
\* other, which had looked for the install before the metadata was written,
\* has then removed the target; the version is not found.
C24_Witness ==
    \E p \in Procs, q \in Procs :
      /\ p # q
      /\ procs[p].pc = "done" /\ procs[p].res.ok /\ procs[p].requests = 1
      /\ procs[q].pc = "create"
      /\ ~Target.exists
      /\ \A order \in ReadOrders :
           find_installed_database(fs, RaceRelease.version, order) = << >>

\* ---------------------------------------------------- visibility claims
\* C25: after an install has downloaded and returned Ok, the metadata file
\* of root/<version> holds the version and the added text of the release,
\* and find_installed_database gives the entry with that version, the path
\* root/<version> and that added text, in whatever order the root is read;
\* it is the entry the install returned.
C25_SuccessIsRecorded ==
    (last.called /\ last.res.ok /\ last.requests = 1)
    => LET release == last.release
           dir == fs.sub[release.version]
           db == [version |-> release.version, path |-> << release.version >>,
                  added |-> release.added]
       IN  /\ read_metadata(dir) =
                [ok |-> TRUE, version |-> release.version, added |-> release.added]
           /\ \A order \in ReadOrders :
                find_installed_database(fs, release.version, order) = << db >>
           /\ last.res.dbs = << db >>

\* C25 witness: HPRC.r2 has just been downloaded and installed next to an
\* installed HPRC.r1 and is found with the date of its release.
C25_Witness ==
    /\ last.called /\ last.res.ok /\ last.requests = 1
    /\ last.release.version = "HPRC.r2"
    /\ Usable(fs.sub["HPRC.r1"])
    /\ \A order \in ReadOrders :
         /\ find_installed_database(fs, "HPRC.r2", order) # << >>
         /\ find_installed_database(fs, "HPRC.r2", order)[1].added = last.release.added

OtherEntries(listed, version) ==
    SelectSeq(listed, LAMBDA db : db.version # version)

Formats == {"Bzip2", "Gzip", "None", "Xz", "Zstd"}

\* let mut magic = [0; 5]
MagicLen == 5

\* The longest stream.
MaxStream == 6

\* The magic numbers of the match arms: 1f 8b, 42 5a, 28 b5 2f fd and
\* fd 37 7a 58 5a.
GzipMagic == << 31, 139 >>

Bzip2Magic == << 66, 90 >>

ZstdMagic == << 40, 181, 47, 253 >>

XzMagic == << 253, 55, 122, 88, 90 >>

\* The pattern matches the start of the array.
HasPrefix(magic, pattern) ==
    /\ Len(pattern) <= Len(magic)
    /\ SubSeq(magic, 1, Len(pattern)) = pattern

\* match magic { ... }: the first arm that matches.
match_magic(magic) ==
    IF HasPrefix(magic, GzipMagic) THEN "Gzip"
    ELSE IF HasPrefix(magic, Bzip2Magic) THEN "Bzip2"
    ELSE IF HasPrefix(magic, ZstdMagic) THEN "Zstd"
    ELSE IF magic = XzMagic THEN "Xz"
    ELSE "None"

\* detect_compression_format(reader): the set of what the call can return
\* and leave behind.  read_exact on a stream with fewer than five bytes
\* fails, and `?` returns before the seek back to original_position; how
\* many bytes a failed read_exact has consumed is unspecified, so the
\* position it leaves is any position of the stream.
detect_compression_format(rd) ==
    LET original_position == rd.pos
        at_start == [rd EXCEPT !.pos = 0]
    IN  IF Len(at_start.bytes) < MagicLen
        THEN {[ok |-> FALSE, format |-> "",
               reader |-> [at_start EXCEPT !.pos = p]] :
                p \in 0..Len(at_start.bytes)}
        ELSE {[ok |-> TRUE,
               format |-> match_magic(SubSeq(at_start.bytes, 1, MagicLen)),
               reader |-> [at_start EXCEPT !.pos = original_position]]}

\* gzip_compress: unimplemented!() panics.
gzip_compress == "panic"

\* bzip2_compress, xz_compress, zstd_compress and io::copy: an io::Result.
codec(fails) == IF fails THEN "Err" ELSE "Ok"

\* CompressionFormat::compress(input, output, threads): how the call ends,
\* "Ok" or "Err" for a returned Result and "panic" for a panic.
compress(format, io) ==
    IF ~io.opens THEN "Err"
    ELSE IF ~io.creates THEN "Err"
    ELSE IF format = "Gzip" THEN gzip_compress
    ELSE codec(io.fails)

\* What the file system and the codec do during one compress call: whether
\* the input opens, whether the output is created, whether the codec fails.
CompressEnvs == [opens : BOOLEAN, creates : BOOLEAN, fails : BOOLEAN]

\* The starts of the streams: each magic number, each magic number with its
\* last byte changed, and a start that is no magic number.
Heads ==
    {GzipMagic, Bzip2Magic, ZstdMagic, XzMagic, << >>}
      \cup {[m EXCEPT ![Len(m)] = 0] :
              m \in {GzipMagic, Bzip2Magic, ZstdMagic, XzMagic}}

\* The first n bytes of a start followed by zero bytes.
StreamOf(head, n) ==
    [i \in 1..n |-> IF i <= Len(head) THEN head[i] ELSE 0]

Streams == {StreamOf(head, n) : head \in Heads, n \in 0..MaxStream}

Readers == {[bytes |-> b, pos |-> p] : b \in Streams, p \in 0..MaxStream}

InitStream ==
    /\ fs = EmptyRoot
    /\ last = NoCall
    /\ scanned = NoScan
    /\ DbIdle
    /\ RaceIdle
    /\ reader \in {rd \in Readers : rd.pos <= Len(rd.bytes)}
    /\ returned = NoReturn

\* One call of CompressionFormat::from_reader on the stream.
Detect ==
    /\ returned.op = "none"
    /\ \E out \in detect_compression_format(reader) :
         /\ reader' = out.reader
         /\ returned' = [op |-> "detect", format |-> out.format,
                         outcome |-> IF out.ok THEN "Ok" ELSE "Err",
                         before |-> reader.pos]
    /\ UNCHANGED << fs, last, scanned, dbvars, procs >>

\* One call of compress.
Compress ==
    /\ returned.op = "none"
    /\ \E format \in Formats, io \in CompressEnvs :
         returned' = [op |-> "compress", format |-> format,
                      outcome |-> compress(format, io),
                      before |-> reader.pos]
    /\ UNCHANGED << fs, last, scanned, dbvars, procs, reader >>

NextStream == Detect \/ Compress

SpecStream == InitStream /\ [][NextStream]_vars

\* The format the bytes at the start of the stream stand for.
FormatOfStart(bytes) ==
    IF SubSeq(bytes, 1, 2) = GzipMagic THEN "Gzip"
    ELSE IF SubSeq(bytes, 1, 2) = Bzip2Magic THEN "Bzip2"
    ELSE IF SubSeq(bytes, 1, 4) = ZstdMagic THEN "Zstd"
    ELSE IF SubSeq(bytes, 1, 5) = XzMagic THEN "Xz"
    ELSE "None"

\* C29: when detect_compression_format has returned, with a format or with
\* an error, the position of the reader is the one before the call, and a
\* returned format is the one of the bytes at the start of the stream,
\* wherever the reader was.  The second conjunct holds; the first fails for
\* a stream shorter than five bytes.
C29_DetectRestoresPosition ==
    returned.op = "detect" =>
      /\ reader.pos = returned.before
      /\ returned.outcome = "Ok" => returned.format = FormatOfStart(reader.bytes)

\* C30: compress ends by returning a Result, Ok or Err, for every format,
\* whatever the file system and the codec do.  Fails for Gzip.
C30_CompressReturnsResult ==
    returned.op = "compress" => returned.outcome \in {"Ok", "Err"}

====
